---- MODULE Spec2Model ----
(***************************************************************************)
(* The development server of the engine (packages/engine/src/Engine.js):   *)
(* Engine.start wires an on-demand "serve" plugin, the web socket          *)
(* register-tab / close callbacks and the watcher callbacks around one     *)
(* shared PageTree and one Watcher.  Every `await` of a handler is a       *)
(* suspension point: a handler is a small process whose pc names the       *)
(* operation it is waiting for, and one action is the block of code that   *)
(* runs between two awaits.                                                *)
(*                                                                         *)
(* Engine.build, Engine.prepare and Engine.stop are calls on the same      *)
(* engine, modelled by the record `engine`; adjustAssetUrl is a function   *)
(* of the URL and of the place of the output file.                         *)
(*                                                                         *)
(* Watcher.js, PageTree.js, renderViaWorker.js and urlPathConverter.js are *)
(* not part of the sources at hand; their behaviour is taken from the      *)
(* specification text (sections 3, 4.1-4.3, 5).                            *)
(***************************************************************************)
EXTENDS Naturals, Sequences, FiniteSets

(* ----------------------------- bounds -------------------------------- *)

\* file system events (modify / delete) the watcher reports in one run, and
\* HTTP requests the serve plugin answers in one run, when both are at work
MaxEvents == 1
MaxRequests == 2
\* the same for a run of requests alone and for a run of watch events alone
ServeMaxRequests == 2
WatchMaxEvents == 2
\* calls of stop() on one engine
MaxStops == 2
\* path segments of an asset URL handed to adjustAssetUrl
MaxUrlLen == 4

\* the source documents found by gatherFiles, in gather order
PageOrder == <<"a", "b", "c">>
Pages == {PageOrder[i] : i \in 1..Len(PageOrder)}
\* the browser tabs (web sockets) of the run and the page each one displays
Channels == {"t1", "t2"}
ChannelPath(c) == IF c = "t1" THEN "b" ELSE "c"
\* the concurrently served HTTP requests
ServeIds == {"s1", "s2"}
\* the single control flow in which the watcher runs its callbacks
WatchId == "w"
Handlers == ServeIds \cup {WatchId}

None == "none"

\* the plugins of this.options.plugins, in order
PluginOrder == <<"p1", "p2">>
Plugins == {PluginOrder[i] : i \in 1..Len(PluginOrder)}

\* the files each page's render reports as its dependencies
RenderDeps(p) ==
  CASE p = "a" -> {}
    [] p = "b" -> {"a"}
    [] OTHER   -> {"b"}

VARIABLES
  watcher,     \* this.watcher: "none" | "created" (pages empty) | "ready"
  source,      \* the source files that exist under docsDir
  pages,       \* keys of watcher.pages
  deps,        \* page -> its recorded dependency set
  subs,        \* page -> page.webSockets
  chan,        \* channel -> [state, reg, path]
  outputs,     \* page -> "none" | "fresh" | "stale" (output file under outputDir)
  tree,        \* pages with a node in the page tree
  treeDirty,   \* the in-memory tree differs structurally from the persisted one
  needsAnotherRenderingPass,
  handlers,    \* handler -> [kind, file, cause, pc, found, pos, fresh, log]
  queue,       \* the watcher's pending tasks
  deleted,     \* pages whose PageDeleted callback has finished
  savedAfter,  \* of those, the ones followed by a pageTree.save()
  nEvents, nRequests,
  outputDir,   \* the output directory: "absent" | "present"
  publicDir,   \* docsDir/__public exists
  plugins,     \* plugin -> its publicFolder: "undeclared" | "missing" | "present"
  devServer,   \* this.devServer: "none" | "running" | "stopped"
  worker,      \* the render worker pool: "ready" | "released"
  pageTreeChangedOnSave,
  engine,      \* the call of build / prepare / stop in progress
  nStops,      \* calls of stop() so far
  asset        \* one call of adjustAssetUrl: [url, dir, result]

\* the state of the running dev server
devVars == <<watcher, source, pages, deps, subs, chan, outputs, tree, treeDirty,
             needsAnotherRenderingPass, handlers, queue, deleted, savedAfter,
             nEvents, nRequests>>

\* the state build, prepare and stop work on, and the asset URL call
lifeVars == <<outputDir, publicDir, plugins, devServer, worker,
              pageTreeChangedOnSave, engine, nStops>>

vars == <<devVars, lifeVars, asset>>

(* ----------------------------- helpers -------------------------------- *)

\* no call of build, prepare or stop is in progress
IdleEngine ==
  [op |-> None, pc |-> "idle", clear |-> TRUE, pos |-> 0, pass |-> 0, log |-> <<>>]

\* no call of adjustAssetUrl has been made
NoAsset == [url |-> <<>>, dir |-> <<>>, result |-> <<>>]

IdleHandler ==
  [kind |-> "idle", file |-> None, cause |-> None, pc |-> "idle", found |-> None,
   pos |-> 0, fresh |-> FALSE, log |-> <<>>]

\* urlToSourceFilePath: the source file a URL stands for, if it exists
UrlToSourceFilePath(url) == IF url \in source THEN url ELSE None

\* variant: the serve handler never finds an output file
OutputNeverExists(p) == FALSE

\* existsSync(this.getOutputFilePath(sourceFilePath))
OutputExists(p) == outputs[p] # None

\* !!page.webSockets?.size ?? false
IsOpenedInBrowser(p) == subs[p] # {}

Count(log, e) == Cardinality({i \in 1..Len(log) : log[i] = e})

(* ------------------------- initial state ------------------------------ *)

\* nothing has been rendered, no tab is connected, no handler and no call of
\* build, prepare or stop is running
Quiet ==
  /\ deps = [p \in Pages |-> {}]
  /\ subs = [p \in Pages |-> {}]
  /\ chan = [c \in Channels |-> [state |-> "new", reg |-> None, path |-> None]]
  /\ outputs = [p \in Pages |-> None]
  /\ treeDirty = FALSE
  /\ needsAnotherRenderingPass = FALSE
  /\ handlers = [h \in Handlers |-> IdleHandler]
  /\ queue = <<>>
  /\ deleted = {}
  /\ savedAfter = {}
  /\ nEvents = 0
  /\ nRequests = 0
  /\ worker = "ready"
  /\ pageTreeChangedOnSave = FALSE
  /\ engine = IdleEngine
  /\ nStops = 0

\* Engine.start has returned: prepare() has cleared the output directory,
\* pageTree.restore() found nothing to restore, the dev server accepts requests,
\* the watcher tracks the gathered files and no tab is connected yet.
Started ==
  /\ watcher = "ready"
  /\ source = Pages
  /\ pages = Pages
  /\ tree = {}
  /\ Quiet
  /\ outputDir = "present"
  /\ publicDir = FALSE
  /\ plugins = [g \in Plugins |-> "undeclared"]
  /\ devServer = "running"

Init == Started /\ asset = NoAsset

(* --------------------------- the watcher ------------------------------ *)

\* The two steps of Engine.start that create the watcher; Init is the state
\* after them.
\* the web socket handlers are attached and this.watcher = new Watcher()
WatcherCreate ==
  /\ watcher = "none"
  /\ watcher' = "created"
  /\ UNCHANGED <<lifeVars, asset>>
  /\ UNCHANGED <<source, pages, deps, subs, chan, outputs, tree, treeDirty,
                 needsAnotherRenderingPass, handlers, queue, deleted, savedAfter,
                 nEvents, nRequests>>

\* await watcher.init(...); await watcher.addPages(files); watcher.watchPages(...)
\* addPages registers the gathered files as pages with empty dependency sets.
WatcherReady ==
  /\ watcher = "created"
  /\ watcher' = "ready"
  /\ pages' = Pages
  /\ UNCHANGED <<lifeVars, asset>>
  /\ UNCHANGED <<source, deps, subs, chan, outputs, tree, treeDirty,
                 needsAnotherRenderingPass, handlers, queue, deleted, savedAfter,
                 nEvents, nRequests>>

\* Watcher.addWebSocketToPage: the channel joins the subscriber set of a known page
AddWebSocketToPage(p, c) ==
  IF p \in pages THEN [subs EXCEPT ![p] = @ \cup {c}] ELSE subs

\* Watcher.removeWebSocket: safe when the channel was never registered
RemoveWebSocket(c) == [p \in Pages |-> subs[p] \ {c}]

\* classification of a modified path f for the tracked page p
Classify(p, f) ==
  IF p = f THEN "changed"
  ELSE IF f \in deps[p]
       THEN (IF IsOpenedInBrowser(p) THEN "changed" ELSE "depSaved")
       ELSE None

\* the tasks one modification of f puts on the watcher's queue, in page order
TasksFor(f) ==
  SelectSeq([i \in 1..Len(PageOrder) |-> <<Classify(PageOrder[i], f), PageOrder[i], f>>],
            LAMBDA t : t[1] # None /\ t[2] \in pages)

\* a source file is saved in the editor
FileModified(f) ==
  /\ watcher = "ready"
  /\ f \in source
  /\ nEvents' = nEvents + 1
  /\ queue' = queue \o TasksFor(f)
  /\ UNCHANGED <<lifeVars, asset>>
  /\ UNCHANGED <<watcher, source, pages, deps, subs, chan, outputs, tree, treeDirty,
                 needsAnotherRenderingPass, handlers, deleted, savedAfter,
                 nRequests>>

\* a source file is removed from disk: the page is destroyed with its edges
FileDeleted(f) ==
  /\ watcher = "ready"
  /\ f \in source
  /\ nEvents' = nEvents + 1
  /\ source' = source \ {f}
  /\ pages' = pages \ {f}
  /\ deps' = [deps EXCEPT ![f] = {}]
  /\ subs' = [subs EXCEPT ![f] = {}]
  /\ queue' = Append(queue, <<"deleted", f, f>>)
  /\ UNCHANGED <<lifeVars, asset>>
  /\ UNCHANGED <<watcher, chan, outputs, tree, treeDirty, needsAnotherRenderingPass,
                 handlers, deleted, savedAfter, nRequests>>

(* ------------------------- live channels ------------------------------ *)

\* webSocketServer.on('connection') registers the close callback and sends the
\* import of /ws-register-tab.js; the tab answers with its register-tab message
\* and webSockets.on('message') suspends on getSourceFilePathFromUrl(pathname)
RegisterTab(c, p) ==
  /\ watcher # "none"
  /\ chan[c].state = "new"
  /\ chan' = [chan EXCEPT ![c] = [state |-> "open", reg |-> "resolving", path |-> p]]
  /\ UNCHANGED <<lifeVars, asset>>
  /\ UNCHANGED <<watcher, source, pages, deps, subs, outputs, tree, treeDirty,
                 needsAnotherRenderingPass, handlers, queue, deleted, savedAfter,
                 nEvents, nRequests>>

\* the message handler resumes: if (sourceFilePath) watcher?.addWebSocketToPage(...)
RegisterResolved(c) ==
  /\ chan[c].reg = "resolving"
  /\ chan' = [chan EXCEPT ![c].reg = "done"]
  /\ subs' = IF UrlToSourceFilePath(chan[c].path) # None
             THEN AddWebSocketToPage(chan[c].path, c)
             ELSE subs
  /\ UNCHANGED <<lifeVars, asset>>
  /\ UNCHANGED <<watcher, source, pages, deps, outputs, tree, treeDirty,
                 needsAnotherRenderingPass, handlers, queue, deleted, savedAfter,
                 nEvents, nRequests>>

\* webSocket.on('close'): watcher?.removeWebSocket(webSocket)
Close(c) ==
  /\ chan[c].state = "open"
  /\ chan' = [chan EXCEPT ![c].state = "closed"]
  /\ subs' = RemoveWebSocket(c)
  /\ UNCHANGED <<lifeVars, asset>>
  /\ UNCHANGED <<watcher, source, pages, deps, outputs, tree, treeDirty,
                 needsAnotherRenderingPass, handlers, queue, deleted, savedAfter,
                 nEvents, nRequests>>

(* --------------------- render, page tree, output ---------------------- *)

\* what a completed render leaves in the output file: a render that started
\* before the last structural change of the tree carries the old navigation.
\* A rejected render has written its error into the output file as well.
WriteOutput(p, fresh) == [outputs EXCEPT ![p] = IF fresh THEN "fresh" ELSE "stale"]

\* variant: deleteOutputOf leaves the output file in place
DeleteOutputOfNothing(p) == outputs

\* Engine.deleteOutputOf: rm(outputFilePath, { force: true })
DeleteOutputOf(p) == [outputs EXCEPT ![p] = None]

\* the dependency set recorded for p when its render succeeded
RecordDependencies(p, ok) == IF ok THEN [deps EXCEPT ![p] = RenderDeps(p)] ELSE deps

\* PageTree.add: a node that is new changes the structure; the metadata of an
\* existing node may or may not have changed with the render
PageTreeAddChanges(p, metaChanged) == p \notin tree \/ metaChanged

\* variant: the sweep does not skip the triggering file
NeverSkipInSweep(trigger, p) == FALSE

\* if (triggerSourceFilePath && triggerSourceFilePath === sourceFilePath) continue
SkipInSweep(trigger, p) == trigger = p

\* the entries of watcher.pages the loop of renderAllOpenedFiles still visits
\* after position pos; without a watcher there is nothing to visit
SweepRest(trigger, pos) ==
  IF watcher = "none" THEN {}
  ELSE {i \in (pos + 1)..Len(PageOrder) :
          PageOrder[i] \in pages /\ ~SkipInSweep(trigger, PageOrder[i])}

Min(S) == CHOOSE i \in S : \A j \in S : i <= j

\* renderAllOpenedFiles from position pos up to its next await, or to its end
\* (then the caller resumes and resets needsAnotherRenderingPass)
SweepFrom(rec, pos) ==
  LET rest == SweepRest(rec.file, pos) IN
  IF rest = {}
  THEN [rec EXCEPT !.pc = "done", !.pos = 0, !.fresh = FALSE]
  ELSE LET i == Min(rest)
           q == PageOrder[i]
       IN IF IsOpenedInBrowser(q)
          THEN [rec EXCEPT !.pc = "sweepRender", !.pos = i, !.fresh = TRUE,
                           !.log = Append(@, <<"render", q>>)]
          ELSE [rec EXCEPT !.pc = "sweepDelete", !.pos = i, !.fresh = FALSE]

\* the catch block of a handler: the rest of the try block is skipped
Caught(rec, p) ==
  [rec EXCEPT !.pc = "done", !.pos = 0, !.fresh = FALSE,
              !.log = Append(@, <<"threw", p>>)]

\* variant: a rejection inside the sweep reaches the catch block of the handler
AfterSweepRenderRethrows(rec, ok) ==
  IF ok THEN SweepFrom(rec, rec.pos) ELSE Caught(rec, PageOrder[rec.pos])

\* try { await this.renderFile(sourceFilePath) } catch (error) {} inside the
\* loop of renderAllOpenedFiles: a rejection is swallowed and the loop goes on
AfterSweepRender(rec, ok) ==
  IF ok THEN SweepFrom(rec, rec.pos)
  ELSE SweepFrom([rec EXCEPT !.log = Append(@, <<"threw", PageOrder[rec.pos]>>)], rec.pos)

(* ------------------------ handler entry points ------------------------ *)

\* the render call of a handler: updateRocketHeader, then renderFile starts
StartRender(rec) ==
  [rec EXCEPT !.pc = "render1", !.fresh = TRUE, !.log = Append(@, <<"render", rec.file>>)]

\* registerTabPlugin.serve for a request of url, resumed after
\* getSourceFilePathFromUrl(context.path):
\*   if (sourceFilePath) { if (!existsSync(outputFilePath)) { ...renderFile
Request(h, url) ==
  /\ h \in ServeIds
  /\ handlers[h].pc = "idle"
  /\ nRequests' = nRequests + 1
  /\ LET rec == [IdleHandler EXCEPT !.kind = "serve", !.file = url] IN
     handlers' = [handlers EXCEPT ![h] =
       IF UrlToSourceFilePath(url) = None
       THEN [rec EXCEPT !.pc = "done", !.found = "nosource"]
       ELSE IF OutputExists(url)
            THEN [rec EXCEPT !.pc = "done", !.found = "cached"]
            ELSE StartRender([rec EXCEPT !.found = "missing"])]
  /\ UNCHANGED <<lifeVars, asset>>
  /\ UNCHANGED <<watcher, source, pages, deps, subs, chan, outputs, tree, treeDirty,
                 needsAnotherRenderingPass, queue, deleted, savedAfter,
                 nEvents>>

\* the watcher takes its next task and calls the callback of its kind; the
\* callbacks of one watcher run one after another
WatchDispatch ==
  /\ watcher = "ready"
  /\ handlers[WatchId].pc = "idle"
  /\ queue # <<>>
  /\ LET t == Head(queue)
         rec == [IdleHandler EXCEPT !.kind = t[1], !.file = t[2], !.cause = t[3]]
     IN handlers' = [handlers EXCEPT ![WatchId] =
          IF t[1] = "changed" THEN StartRender(rec) ELSE [rec EXCEPT !.pc = "delete"]]
  /\ queue' = Tail(queue)
  /\ UNCHANGED <<lifeVars, asset>>
  /\ UNCHANGED <<watcher, source, pages, deps, subs, chan, outputs, tree, treeDirty,
                 needsAnotherRenderingPass, deleted, savedAfter,
                 nEvents, nRequests>>

(* ---------------- the render / add / save / cascade steps -------------- *)

\* the first render settles: on success pageTree.add is called, on rejection
\* the catch block ends the handler
RenderDone(h, ok) ==
  /\ handlers[h].pc = "render1"
    /\ outputs' = WriteOutput(handlers[h].file, handlers[h].fresh)
  /\ deps' = RecordDependencies(handlers[h].file, ok)
  /\ handlers' = [handlers EXCEPT ![h] =
       IF ok THEN [@ EXCEPT !.pc = "add", !.fresh = FALSE]
       ELSE Caught(@, handlers[h].file)]
  /\ UNCHANGED <<lifeVars, asset>>
  /\ UNCHANGED <<watcher, source, pages, subs, chan, tree, treeDirty,
                 needsAnotherRenderingPass, queue, deleted, savedAfter,
                 nEvents, nRequests>>

\* pageTree.add resolved; pageTree.save is called
AddDone(h, metaChanged) ==
  /\ handlers[h].pc = "add"
  /\ tree' = tree \cup {handlers[h].file}
  /\ treeDirty' = (treeDirty \/ PageTreeAddChanges(handlers[h].file, metaChanged))
  /\ handlers' = [handlers EXCEPT ![h] =
       [@ EXCEPT !.pc = "save", !.log = Append(@, <<"add", handlers[h].file>>)]]
  /\ UNCHANGED <<lifeVars, asset>>
  /\ UNCHANGED <<watcher, source, pages, deps, subs, chan, outputs,
                 needsAnotherRenderingPass, queue, deleted, savedAfter,
                 nEvents, nRequests>>

\* what PageTree.save leaves in needsAnotherRenderingPass
FlagAfterSave == needsAnotherRenderingPass \/ treeDirty

\* variant: the handler renders the file a second time whatever the flag says
AfterSaveAlwaysRerender(rec, flag) ==
  LET saved == [rec EXCEPT !.log = Append(@, <<"save", IF treeDirty THEN "changed" ELSE "same">>)]
  IN [saved EXCEPT !.pc = "render2", !.fresh = TRUE,
                   !.log = @ \o (IF flag THEN << <<"pass", rec.file>> >> ELSE <<>>)
                             \o << <<"render", rec.file>> >>]

\* variant: the sweep is started without waiting for the second render
AfterSaveSweepsAtOnce(rec, flag) ==
  LET saved == [rec EXCEPT !.log = Append(@, <<"save", IF treeDirty THEN "changed" ELSE "same">>)]
  IN IF flag
     THEN SweepFrom([saved EXCEPT !.log = @ \o << <<"pass", rec.file>>, <<"render", rec.file>> >>], 0)
     ELSE [saved EXCEPT !.pc = "done"]

\* if (pageTree.needsAnotherRenderingPass) { await this.renderFile(sourceFilePath)
AfterSave(rec, flag) ==
  LET saved == [rec EXCEPT !.log = Append(@, <<"save", IF treeDirty THEN "changed" ELSE "same">>)]
  IN IF flag
     THEN [saved EXCEPT !.pc = "render2", !.fresh = TRUE,
                        !.log = @ \o << <<"pass", rec.file>>, <<"render", rec.file>> >>]
     ELSE [saved EXCEPT !.pc = "done"]

\* pageTree.save resolved: a structural change is persisted, every output
\* written so far and every render in flight shows the previous structure
SaveDone(h) ==
  /\ handlers[h].pc = "save"
  /\ needsAnotherRenderingPass' = FlagAfterSave
  /\ treeDirty' = FALSE
  /\ outputs' = IF treeDirty
                THEN [p \in Pages |-> IF outputs[p] = None THEN None ELSE "stale"]
                ELSE outputs
  /\ handlers' = [k \in Handlers |->
       IF k = h THEN AfterSave(handlers[h], FlagAfterSave)
       ELSE IF treeDirty THEN [handlers[k] EXCEPT !.fresh = FALSE]
       ELSE handlers[k]]
  /\ savedAfter' = savedAfter \cup deleted
  /\ UNCHANGED <<lifeVars, asset>>
  /\ UNCHANGED <<watcher, source, pages, deps, subs, chan, tree, queue, deleted,
                 nEvents, nRequests>>

\* the second render of the triggering file settles: on success
\* renderAllOpenedFiles({ triggerSourceFilePath }) starts, on rejection the
\* catch block ends the handler
Render2Done(h, ok) ==
  /\ handlers[h].pc = "render2"
    /\ outputs' = WriteOutput(handlers[h].file, handlers[h].fresh)
  /\ deps' = RecordDependencies(handlers[h].file, ok)
  /\ LET next == IF ok THEN SweepFrom(handlers[h], 0)
                 ELSE Caught(handlers[h], handlers[h].file)
     IN /\ handlers' = [handlers EXCEPT ![h] = next]
        /\ needsAnotherRenderingPass' =
             IF ok /\ next.pc = "done" THEN FALSE ELSE needsAnotherRenderingPass
  /\ UNCHANGED <<lifeVars, asset>>
  /\ UNCHANGED <<watcher, source, pages, subs, chan, tree, treeDirty,
                 queue, deleted, savedAfter, nEvents, nRequests>>

\* a render of the sweep settles; a rejection is caught inside the loop
SweepRenderDone(h, ok) ==
  /\ handlers[h].pc = "sweepRender"
    /\ LET q == PageOrder[handlers[h].pos]
         next == AfterSweepRender(handlers[h], ok)
     IN /\ outputs' = WriteOutput(q, handlers[h].fresh)
        /\ deps' = RecordDependencies(q, ok)
        /\ handlers' = [handlers EXCEPT ![h] = next]
        /\ needsAnotherRenderingPass' =
             IF next.pc = "done" THEN FALSE ELSE needsAnotherRenderingPass
  /\ UNCHANGED <<lifeVars, asset>>
  /\ UNCHANGED <<watcher, source, pages, subs, chan, tree, treeDirty,
                 queue, deleted, savedAfter, nEvents, nRequests>>

\* deleteOutputOf of a page that is not open settles inside the sweep
SweepDeleteDone(h) ==
  /\ handlers[h].pc = "sweepDelete"
  /\ LET q == PageOrder[handlers[h].pos]
         rec == [handlers[h] EXCEPT !.log = Append(@, <<"delete", q>>)]
         next == SweepFrom(rec, rec.pos)
     IN /\ outputs' = DeleteOutputOf(q)
        /\ handlers' = [handlers EXCEPT ![h] = next]
        /\ needsAnotherRenderingPass' =
             IF next.pc = "done" THEN FALSE ELSE needsAnotherRenderingPass
  /\ UNCHANGED <<lifeVars, asset>>
  /\ UNCHANGED <<watcher, source, pages, deps, subs, chan, tree, treeDirty,
                 queue, deleted, savedAfter, nEvents, nRequests>>

\* onPageServerDependencySaved / onPageDeleted: deleteOutputOf settles
DeleteDone(h) ==
  /\ handlers[h].pc = "delete"
  /\ outputs' = DeleteOutputOf(handlers[h].file)
  /\ handlers' = [handlers EXCEPT ![h] =
       [@ EXCEPT !.pc = "done", !.log = Append(@, <<"delete", handlers[h].file>>)]]
  /\ deleted' = IF handlers[h].kind = "deleted"
                THEN deleted \cup {handlers[h].file} ELSE deleted
  /\ UNCHANGED <<lifeVars, asset>>
  /\ UNCHANGED <<watcher, source, pages, deps, subs, chan, tree, treeDirty,
                 needsAnotherRenderingPass, queue, savedAfter,
                 nEvents, nRequests>>

\* the handler has returned: the response is served / onDone is emitted
Finish(h) ==
  /\ handlers[h].pc = "done"
  /\ handlers' = [handlers EXCEPT ![h] = IdleHandler]
  /\ UNCHANGED <<lifeVars, asset>>
  /\ UNCHANGED <<watcher, source, pages, deps, subs, chan, outputs, tree, treeDirty,
                 needsAnotherRenderingPass, queue, deleted, savedAfter,
                 nEvents, nRequests>>

(* ------------------------ prepare, build, stop ------------------------ *)

\* a constructed engine on which nothing has been started: the directories are
\* as the user left them, tree is the page tree a previous build has persisted
InitBare ==
  /\ watcher = None
  /\ source \in {{}, Pages}
  /\ pages = {}
  /\ tree \in {{}, source}
  /\ Quiet
  /\ outputDir \in {"absent", "present"}
  /\ publicDir \in BOOLEAN
  /\ plugins \in [Plugins -> {"undeclared", "missing", "present"}]
  /\ devServer = None
  /\ asset = NoAsset

\* gatherFiles(this.docsDir): the source files in gather order
SourceFiles == SelectSeq(PageOrder, LAMBDA p : p \in source)

\* Engine.clearOutputDir: rm(this.outputDir, { recursive: true, force: true })
ClearOutputDir == "absent"

\* fse.copy(folder, this.outputDir) creates the output directory if it is missing
CopyInto(exists) == IF exists THEN "present" ELSE outputDir

\* engine.prepare({ clearOutputDir }) is called
PrepareCall(clear) ==
  /\ engine.pc = "idle" /\ engine.op = None
  /\ engine' = [engine EXCEPT !.op = "prepare", !.pc = "prepare", !.clear = clear]
  /\ UNCHANGED <<devVars, asset, outputDir, publicDir, plugins, devServer, worker,
                 pageTreeChangedOnSave, nStops>>

\* engine.build() is called: await this.prepare()
BuildCall ==
  /\ engine.pc = "idle" /\ engine.op = None
  /\ engine' = [engine EXCEPT !.op = "build", !.pc = "prepare", !.clear = TRUE]
  /\ UNCHANGED <<devVars, asset, outputDir, publicDir, plugins, devServer, worker,
                 pageTreeChangedOnSave, nStops>>

\* if (!existsSync(outputDir)) await mkdir(outputDir, { recursive: true })
\* else if (clearOutputDir) await this.clearOutputDir()
PrepareOutputDir ==
  /\ engine.pc = "prepare"
  /\ outputDir' = IF outputDir = "absent" THEN "present"
                  ELSE IF engine.clear THEN ClearOutputDir ELSE outputDir
  /\ outputs' = IF outputDir = "present" /\ engine.clear
                THEN [p \in Pages |-> None] ELSE outputs
  /\ engine' = [engine EXCEPT !.pc = "public"]
  /\ UNCHANGED <<watcher, source, pages, deps, subs, chan, tree, treeDirty,
                 needsAnotherRenderingPass, handlers, queue, deleted, savedAfter,
                 nEvents, nRequests>>
  /\ UNCHANGED <<asset, publicDir, plugins, devServer, worker,
                 pageTreeChangedOnSave, nStops>>

\* if (existsSync(publicDir)) await fse.copy(publicDir, this.outputDir)
CopyPublic ==
  /\ engine.pc = "public"
  /\ outputDir' = CopyInto(publicDir)
  /\ engine' = [engine EXCEPT !.pc = "plugins", !.pos = 0]
  /\ UNCHANGED <<devVars, asset, publicDir, plugins, devServer, worker,
                 pageTreeChangedOnSave, nStops>>

\* where the caller of prepare() goes on when prepare has returned
AfterPrepare(e) ==
  IF e.op = "build" THEN [e EXCEPT !.pc = "gather", !.pos = 0]
  ELSE [e EXCEPT !.pc = "returned", !.pos = 0]

\* one round of the loop over this.options.plugins: the public folder is
\* copied if it is declared and exists, a message is logged otherwise
CopyPluginFolder ==
  /\ engine.pc = "plugins"
  /\ LET i == engine.pos + 1
         g == PluginOrder[i]
     IN /\ outputDir' = CopyInto(plugins[g] = "present")
        /\ engine' = IF i = Len(PluginOrder) THEN AfterPrepare(engine)
                     ELSE [engine EXCEPT !.pos = i]
  /\ UNCHANGED <<devVars, asset, publicDir, plugins, devServer, worker,
                 pageTreeChangedOnSave, nStops>>

\* build calls renderFile for the file at position i of pass number pass
BuildRender(e, i, pass) ==
  [e EXCEPT !.pc = "buildRender", !.pos = i, !.pass = pass,
            !.log = Append(@, <<"render", SourceFiles[i]>>)]

\* build calls this.stop()
BuildStops(e) == [e EXCEPT !.pc = "stop", !.pos = 0]

\* new PageTree(...); sourceFiles = await gatherFiles(this.docsDir);
\* if (sourceFiles.length > 0) the first file is rendered
BuildGather ==
  /\ engine.pc = "gather"
  /\ treeDirty' = FALSE
  /\ engine' = IF Len(SourceFiles) > 0 THEN BuildRender(engine, 1, 1)
               ELSE BuildStops(engine)
  /\ UNCHANGED <<watcher, source, pages, deps, subs, chan, outputs, tree,
                 needsAnotherRenderingPass, handlers, queue, deleted, savedAfter,
                 nEvents, nRequests>>
  /\ UNCHANGED <<asset, outputDir, publicDir, plugins, devServer, worker,
                 pageTreeChangedOnSave, nStops>>

\* a rejection inside build() is caught nowhere: the promise of build rejects
BuildRejects(e, p) == [e EXCEPT !.pc = "rejected", !.log = Append(@, <<"threw", p>>)]

\* the step of build after a render of pass 2 has resolved
AfterSecondRender(e) ==
  IF e.pos < Len(SourceFiles) THEN BuildRender(e, e.pos + 1, 2) ELSE BuildStops(e)

\* await this.renderFile(sourceFilePath) settles in one of the two loops
BuildRenderDone(ok) ==
  /\ engine.pc = "buildRender"
  /\ outputs' = WriteOutput(SourceFiles[engine.pos], TRUE)
  /\ outputDir' = "present"
  /\ engine' = IF ~ok THEN BuildRejects(engine, SourceFiles[engine.pos])
               ELSE IF engine.pass = 1 THEN [engine EXCEPT !.pc = "buildAdd"]
               ELSE AfterSecondRender(engine)
  /\ UNCHANGED <<watcher, source, pages, deps, subs, chan, tree, treeDirty,
                 needsAnotherRenderingPass, handlers, queue, deleted, savedAfter,
                 nEvents, nRequests>>
  /\ UNCHANGED <<asset, publicDir, plugins, devServer, worker,
                 pageTreeChangedOnSave, nStops>>

\* await pageTree.add(sourceRelativeFilePath) resolved: the next file is
\* rendered, after the last one pageTree.save() is called
BuildAddDone(metaChanged) ==
  /\ engine.pc = "buildAdd"
  /\ LET p == SourceFiles[engine.pos]
         added == [engine EXCEPT !.log = Append(@, <<"add", p>>)]
     IN /\ tree' = tree \cup {p}
        /\ treeDirty' = (treeDirty \/ PageTreeAddChanges(p, metaChanged))
        /\ engine' = IF engine.pos < Len(SourceFiles)
                     THEN BuildRender(added, engine.pos + 1, 1)
                     ELSE [added EXCEPT !.pc = "buildSave"]
  /\ UNCHANGED <<watcher, source, pages, deps, subs, chan, outputs,
                 needsAnotherRenderingPass, handlers, queue, deleted, savedAfter,
                 nEvents, nRequests>>
  /\ UNCHANGED <<asset, outputDir, publicDir, plugins, devServer, worker,
                 pageTreeChangedOnSave, nStops>>

\* if (pageTree.pageTreeChangedOnSave) { for (const sourceFilePath of sourceFiles) ...
AfterBuildSave(e, changed) ==
  LET saved == [e EXCEPT !.log = Append(@, <<"save", IF changed THEN "changed" ELSE "same">>)]
  IN IF changed THEN BuildRender(saved, 1, 2) ELSE BuildStops(saved)

\* await pageTree.save() resolved: the structural change is persisted and the
\* outputs written so far show the previous structure
BuildSaveDone ==
  /\ engine.pc = "buildSave"
  /\ pageTreeChangedOnSave' = treeDirty
  /\ needsAnotherRenderingPass' = FlagAfterSave
  /\ treeDirty' = FALSE
  /\ outputs' = IF treeDirty
                THEN [p \in Pages |-> IF outputs[p] = None THEN None ELSE "stale"]
                ELSE outputs
  /\ engine' = AfterBuildSave(engine, treeDirty)
  /\ UNCHANGED <<watcher, source, pages, deps, subs, chan, tree, handlers, queue,
                 deleted, savedAfter, nEvents, nRequests>>
  /\ UNCHANGED <<asset, outputDir, publicDir, plugins, devServer, worker, nStops>>

\* variant: stop() leaves the watcher running
WatcherKeepsRunning == watcher

\* this?.watcher?.cleanup(): the watcher accepts no further events
WatcherCleanup == IF watcher = None THEN None ELSE "cleaned"

\* this.devServer?.stop()
DevServerStop == IF devServer = None THEN None ELSE "stopped"

\* the synchronous part of stop(), up to await cleanupWorker()
StopSync(e) ==
  /\ watcher' = WatcherCleanup
  /\ devServer' = DevServerStop
  /\ nStops' = nStops + 1
  /\ engine' = [e EXCEPT !.pc = "cleanupWorker", !.log = Append(@, <<"stop", "called">>)]
  /\ UNCHANGED <<source, pages, deps, subs, chan, outputs, tree, treeDirty,
                 needsAnotherRenderingPass, handlers, queue, deleted, savedAfter,
                 nEvents, nRequests>>
  /\ UNCHANGED <<asset, outputDir, publicDir, plugins, worker, pageTreeChangedOnSave>>

\* await this.stop() at the end of build()
BuildStop ==
  /\ engine.op = "build" /\ engine.pc = "stop"
  /\ StopSync(engine)

\* engine.stop() is called from outside, on any engine and any number of times
StopCall ==
  /\ engine.op \in {None, "stop"} /\ engine.pc \in {"idle", "returned"}
  /\ StopSync([engine EXCEPT !.op = "stop"])

\* await cleanupWorker() resolved: the worker pool is released and stop()
\* returns (and with it build(), whose last statement it is)
CleanupWorkerDone ==
  /\ engine.pc = "cleanupWorker"
  /\ worker' = "released"
  /\ engine' = [engine EXCEPT !.pc = "returned",
                              !.log = Append(@, <<"stop", "returned">>)]
  /\ UNCHANGED <<devVars, asset, outputDir, publicDir, plugins, devServer,
                 pageTreeChangedOnSave, nStops>>

(* ---------------------------- asset URLs ------------------------------- *)

\* paths and URLs are sequences of segments; "" as first segment is a leading "/"
UrlSegments == {".", "..", "img", "x"}
Urls == UNION {[1..n -> UrlSegments] : n \in 1..MaxUrlLen}

\* this.outputDir, and the directories below it an output file can lie in
OutputDirPath == <<"proj", "_site">>
OutputSubDirs == {<<>>, <<"docs">>, <<"docs", "sub">>}

\* url.startsWith('./') || url.startsWith('../')
IsRelativeUrl(url) == Len(url) >= 2 /\ url[1] \in {".", ".."}

\* path.join(dir, url): "." is dropped, ".." leaves the directory reached so
\* far, and nothing lies above the root
RECURSIVE PathJoin(_, _)
PathJoin(dir, url) ==
  IF url = <<>> THEN dir
  ELSE IF Head(url) = "." THEN PathJoin(dir, Tail(url))
  ELSE IF Head(url) = ".."
       THEN PathJoin(IF dir = <<>> THEN dir ELSE SubSeq(dir, 1, Len(dir) - 1), Tail(url))
  ELSE PathJoin(Append(dir, Head(url)), Tail(url))

\* the number of leading segments two paths share
RECURSIVE CommonPrefix(_, _)
CommonPrefix(from, to) ==
  IF from # <<>> /\ to # <<>> /\ Head(from) = Head(to)
  THEN 1 + CommonPrefix(Tail(from), Tail(to))
  ELSE 0

\* path.relative(from, to)
PathRelative(from, to) ==
  LET k == CommonPrefix(from, to)
  IN [i \in 1..(Len(from) - k) |-> ".."] \o SubSeq(to, k + 1, Len(to))

\* variant: the first "../" is stripped and counted, the others are left
RECURSIVE StripOnce(_, _)
StripOnce(relPath, count) ==
  IF Len(relPath) >= 2 /\ Head(relPath) = ".." /\ count = 0
  THEN StripOnce(Tail(relPath), count + 1)
  ELSE [count |-> count, relPath |-> relPath]

\* while (relPath.startsWith('../')) { relPath = relPath.substring(3); count += 1 }
RECURSIVE StripOutside(_, _)
StripOutside(relPath, count) ==
  IF Len(relPath) >= 2 /\ Head(relPath) = ".."
  THEN StripOutside(Tail(relPath), count + 1)
  ELSE [count |-> count, relPath |-> relPath]

\* `${count}`: the decimal digits of the counter
Decimal(n) == <<"0", "1", "2", "3", "4", "5", "6", "7", "8", "9">>[n + 1]

\* adjustAssetUrl({ url, outputFilePath }) for an output file in outputDir/dir
AdjustedUrl(url, dir) ==
  IF IsRelativeUrl(url)
  THEN LET assetFilePath == PathJoin(OutputDirPath \o dir, url)
           s == StripOutside(PathRelative(OutputDirPath, assetFilePath), 0)
       IN <<"", "__wds-outside-root__", Decimal(s.count)>> \o s.relPath
  ELSE url

\* the dev server has an asset URL of an output file to transform
InitAsset ==
  /\ Started
  /\ asset \in [url : Urls, dir : OutputSubDirs, result : {<<>>}]

\* adjustAssetUrl is called and returns
AdjustAssetUrl ==
  /\ asset.result = <<>>
  /\ asset' = [asset EXCEPT !.result = AdjustedUrl(asset.url, asset.dir)]
  /\ UNCHANGED <<devVars, lifeVars>>

(* --------------------------- specification ---------------------------- *)

\* the steps of a handler between its entry and its return
HandlerStep ==
  \/ \E h \in Handlers, ok \in BOOLEAN : RenderDone(h, ok)
  \/ \E h \in Handlers, metaChanged \in BOOLEAN : AddDone(h, metaChanged)
  \/ \E h \in Handlers : SaveDone(h)
  \/ \E h \in Handlers, ok \in BOOLEAN : Render2Done(h, ok)
  \/ \E h \in Handlers : SweepDeleteDone(h)
  \/ \E h \in Handlers : Finish(h)

\* the sweep renders a page: needs a subscribed tab
SweepRenderStep == \E h \in Handlers, ok \in BOOLEAN : SweepRenderDone(h, ok)

\* browser tabs register and close
TabStep ==
  \/ \E c \in Channels : RegisterTab(c, ChannelPath(c))
  \/ \E c \in Channels : RegisterResolved(c)
  \/ \E c \in Channels : Close(c)

\* the watcher reports at most max file system events and runs its callbacks
WatchStep(max) ==
  \/ nEvents < max /\ \E f \in Pages : FileModified(f)
  \/ nEvents < max /\ \E f \in Pages : FileDeleted(f)
  \/ WatchDispatch
  \/ \E h \in Handlers : DeleteDone(h)

\* at most max requests reach the serve plugin, each answered by one of ids
ServeStep(ids, max) == nRequests < max /\ \E h \in ids, p \in Pages : Request(h, p)

\* the dev server at work: requests, watch events and tabs
Next == ServeStep({"s1"}, MaxRequests) \/ WatchStep(MaxEvents) \/ TabStep
          \/ HandlerStep \/ SweepRenderStep

Spec == Init /\ [][Next]_vars

\* requests and tabs, while no file changes
NextServe == ServeStep(ServeIds, ServeMaxRequests) \/ TabStep \/ HandlerStep \/ SweepRenderStep

SpecServe == Init /\ [][NextServe]_vars

\* watch events and tabs, while no request arrives
NextWatch == WatchStep(WatchMaxEvents) \/ TabStep \/ HandlerStep \/ SweepRenderStep

SpecWatch == Init /\ [][NextWatch]_vars

\* requests and watch events, while no tab is connected
NextNoTabs == ServeStep({"s1"}, MaxRequests) \/ WatchStep(MaxEvents) \/ HandlerStep

SpecNoTabs == Init /\ [][NextNoTabs]_vars

\* one call of prepare() or of build() on a constructed engine
NextBuild ==
  \/ \E clear \in BOOLEAN : PrepareCall(clear)
  \/ BuildCall
  \/ PrepareOutputDir
  \/ CopyPublic
  \/ CopyPluginFolder
  \/ BuildGather
  \/ \E ok \in BOOLEAN : BuildRenderDone(ok)
  \/ \E metaChanged \in BOOLEAN : BuildAddDone(metaChanged)
  \/ BuildSaveDone
  \/ BuildStop
  \/ CleanupWorkerDone

SpecBuild == InitBare /\ [][NextBuild]_vars

\* an engine that was started, or one on which nothing was started
InitStop ==
  \/ Init
  \/ /\ InitBare
     /\ source = Pages /\ tree = {} /\ outputDir = "present" /\ ~publicDir
     /\ plugins = [g \in Plugins |-> "undeclared"]

\* stop() is called up to max times
StopStep(max) ==
  \/ nStops < max /\ StopCall
  \/ CleanupWorkerDone

\* the dev server at work on watch events, and stop() called at any moment
NextStop == WatchStep(MaxEvents) \/ TabStep \/ HandlerStep \/ SweepRenderStep
              \/ StopStep(MaxStops)

SpecStop == InitStop /\ [][NextStop]_vars

\* Engine.start at line 240: prepare() has run, the dev server accepts
\* connections, the watcher is not created yet
InitStarting ==
  /\ watcher = None
  /\ source = Pages
  /\ pages = {}
  /\ tree = {}
  /\ Quiet
  /\ outputDir = "present"
  /\ publicDir = FALSE
  /\ plugins = [g \in Plugins |-> "undeclared"]
  /\ devServer = "running"
  /\ asset = NoAsset

\* the rest of Engine.start, with tabs connecting and files changing meanwhile
NextStart == WatcherCreate \/ WatcherReady \/ WatchStep(MaxEvents) \/ TabStep
               \/ HandlerStep \/ SweepRenderStep

SpecStart == InitStarting /\ [][NextStart]_vars

\* the transform plugin rewrites one asset URL
SpecAsset == InitAsset /\ [][AdjustAssetUrl]_vars

TypeOK ==
  /\ watcher \in {"none", "created", "ready", "cleaned"}
  /\ source \subseteq Pages /\ pages \subseteq Pages /\ tree \subseteq Pages
  /\ \A p \in Pages : outputs[p] \in {None, "fresh", "stale"}
  /\ \A p \in Pages : subs[p] \subseteq Channels
  /\ treeDirty \in BOOLEAN /\ needsAnotherRenderingPass \in BOOLEAN

(* ------------------------------ claims -------------------------------- *)

HasEntry(log, e) == \E i \in 1..Len(log) : log[i] = e

\* how often the sweep of a handler visited page q
Visited(log, q) == Count(log, <<"render", q>>) + Count(log, <<"delete", q>>)

\* no handler is running and the watcher has no task left
Settled == queue = <<>> /\ \A h \in Handlers : handlers[h].pc = "idle"

\* the log of an on-demand run follows render(X), add(X), save, and after a
\* flag read as set: render(X), then sweep entries about pages other than X
ServeLogInOrder(r) ==
  LET X == r.file
      log == r.log
  IN /\ Len(log) >= 1 /\ log[1] = <<"render", X>>
     /\ Len(log) >= 2 => log[2] \in {<<"add", X>>, <<"threw", X>>}
     /\ Len(log) >= 3 => log[2] = <<"add", X>> /\ log[3][1] = "save"
     /\ Len(log) >= 4 => /\ log[4] = <<"pass", X>>
                         /\ Len(log) >= 5
                         /\ log[5] = <<"render", X>>
     /\ \A i \in 6..Len(log) :
          \/ log[i][1] \in {"render", "delete", "threw"} /\ log[i][2] # X
          \/ i = 6 /\ Len(log) = 6 /\ log[i] = <<"threw", X>>
     /\ \A q \in Pages \ {X} : Visited(log, q) <= 1
     /\ r.pc = "render1" => Len(log) = 1
     /\ r.pc = "add" => Len(log) = 1
     /\ r.pc = "save" => Len(log) = 2
     /\ r.pc = "render2" => Len(log) = 5
     /\ r.pc \in {"sweepRender", "sweepDelete"} => Len(log) >= 5
     /\ (r.pc = "done" /\ ~HasEntry(log, <<"threw", X>>)) =>
          /\ Len(log) >= 3
          /\ Len(log) >= 4 => \A q \in pages \ {X} : Visited(log, q) = 1

\* the step in which handler h resumes from pageTree.save: it goes on to the
\* second render exactly when the tree signals a structural change
ServeReadsFlag(h) ==
  (handlers[h].pc = "save" /\ handlers'[h].pc # "save") =>
     ((handlers'[h].pc = "render2") <=> needsAnotherRenderingPass')

\* the step in which the sweep of handler h reaches a page: it is rendered if
\* it has an open channel and its output is deleted otherwise
ServeSweepVisit(h) ==
  \A i \in 1..Len(PageOrder) :
    (handlers'[h].pos = i /\ handlers[h].pos # i) =>
       /\ PageOrder[i] # handlers'[h].file
       /\ (handlers'[h].pc = "sweepRender") <=> (subs[PageOrder[i]] # {})
       /\ (handlers'[h].pc = "sweepDelete") <=> (subs[PageOrder[i]] = {})

Cascading(r) == r.kind \in {"serve", "changed"} /\ r.log # <<>>

\* a channel that is still connected is subscribed to page p
HasOpenChannel(p) == \E c \in subs[p] : chan[c].state = "open"

\* C2 (as claimed): once the save of a run for page X has signalled a
\* structural change, the finished run has rendered every other tracked page
\* that has an open channel exactly once (pages the sweep saw without a channel
\* had their output deleted instead) and X at most twice.
C2_CascadeRerendersOpenPages ==
  \A h \in Handlers :
    LET r == handlers[h] IN
    (Cascading(r) /\ r.pc = "done" /\ HasEntry(r.log, <<"save", "changed">>)) =>
       /\ Count(r.log, <<"render", r.file>>) <= 2
       /\ \A q \in pages \ {r.file} :
            (HasOpenChannel(q) /\ ~HasEntry(r.log, <<"delete", q>>)) =>
               Count(r.log, <<"render", q>>) = 1

\* C3 (as claimed): when everything has settled, no page with an open channel
\* shows an output rendered before the last structural change of the tree, and
\* no run swept a page more than once.
C3_Convergence ==
  /\ Settled => \A p \in Pages : HasOpenChannel(p) => outputs[p] # "stale"
  /\ \A h \in Handlers : \A q \in Pages \ {handlers[h].file} :
       Visited(handlers[h].log, q) <= 1

\* the watcher's run for page P after a dependency of P (not P itself) changed
DependencyRun(r) == r.kind = "changed" /\ r.cause # r.file

OneTaskPerChange ==
  \A p \in Pages, f \in Pages :
    (/\ Len(queue') > Len(queue)
     /\ queue'[Len(queue')][3] = f /\ queue'[Len(queue')][1] # "deleted"
     /\ f \in deps[p] /\ subs[p] # {} /\ p \in pages) =>
       Cardinality({i \in (Len(queue) + 1)..Len(queue') :
                      queue'[i] = <<"changed", p, f>>}) = 1

SweepSurvivesFailure(h) ==
  LET r == handlers[h] IN
  (r.pc = "sweepRender" /\ Len(handlers'[h].log) > Len(r.log)
     /\ handlers'[h].log[Len(r.log) + 1] = <<"threw", PageOrder[r.pos]>>) =>
       \/ handlers'[h].pos > r.pos
       \/ /\ handlers'[h].pc = "done"
          /\ ~\E i \in (r.pos + 1)..Len(PageOrder) :
                PageOrder[i] \in pages /\ PageOrder[i] # r.file

C6_HandlersSerialized ==
  Cardinality({h \in Handlers :
     handlers[h].pc \in {"add", "save", "render2", "sweepRender", "sweepDelete"}}) <= 1

\* the step in which a request for p is resolved by serve handler h
Resolves(h, p) ==
  handlers[h].pc = "idle" /\ handlers'[h].kind = "serve" /\ handlers'[h].file = p

C8_DeletedPageLeavesNothing ==
  /\ \A p \in savedAfter : p \notin tree
  /\ Settled => \A p \in Pages \ source : outputs[p] = None

\* C9 (as claimed): no closed channel is a member of a subscriber set.
C9_NoClosedSubscriber ==
  \A c \in Channels : chan[c].state = "closed" => \A p \in Pages : c \notin subs[p]

\* C10: a request that resolves to a source file whose output exists renders
\* nothing, touches neither the page tree nor an output file and starts no
\* cascade; a serve run that did anything found the output missing.
C10_CachedOutputServedAsIs ==
  /\ [](\A h \in ServeIds :
          (handlers[h].kind = "serve" /\ handlers[h].log # <<>>) =>
             handlers[h].found = "missing")
  /\ [][\A h \in ServeIds, p \in Pages :
          (Resolves(h, p) /\ outputs[p] # None) =>
             /\ handlers'[h].pc = "done" /\ handlers'[h].log = <<>>
             /\ UNCHANGED <<outputs, tree, treeDirty, needsAnotherRenderingPass, deps>>]_vars

\* a request was answered from an existing output file
C10_Witness ==
  \E h \in ServeIds :
    /\ handlers[h].found = "cached" /\ handlers[h].pc = "done"
    /\ handlers[h].file \in source /\ outputs[handlers[h].file] # None

\* the call of build() has ended: its promise is resolved or rejected
BuildEnded == engine.op = "build" /\ engine.pc \in {"returned", "rejected"}

\* C11 (as claimed): a build that has ended has rendered every gathered source
\* file once, plus once more exactly when its save reported a changed tree, has
\* added every file once and has saved the tree once.
C11_BuildRendersEveryFile ==
  (BuildEnded /\ source # {}) =>
     /\ Count(engine.log, <<"save", "changed">>) + Count(engine.log, <<"save", "same">>) = 1
     /\ \A p \in source :
          /\ Count(engine.log, <<"add", p>>) = 1
          /\ Count(engine.log, <<"render", p>>) =
               (IF HasEntry(engine.log, <<"save", "changed">>) THEN 2 ELSE 1)

C16_FlagResetWhenHandlerDone ==
  \A h \in Handlers :
    (Cascading(handlers[h]) /\ handlers[h].pc = "done") => ~needsAnotherRenderingPass

\* the run went through its whole cascade: the second render of its file
\* resolved and the sweep reached its end
CascadeCompleted(r) ==
  /\ Cascading(r) /\ r.pc = "done"
  /\ HasEntry(r.log, <<"pass", r.file>>)
  /\ ~HasEntry(r.log, <<"threw", r.file>>)

\* C17 (as claimed): when the cascade triggered by X is complete, every other
\* tracked page was visited once by the sweep, none of them has an output
\* showing the previous tree, and the sweep did not touch X.
C17_NoStaleOutputAfterCascade ==
  \A h \in Handlers :
    LET r == handlers[h] IN
    CascadeCompleted(r) =>
      /\ \A q \in pages \ {r.file} : Visited(r.log, q) = 1 /\ outputs[q] # "stale"
      /\ Count(r.log, <<"render", r.file>>) = 2
      /\ ~HasEntry(r.log, <<"delete", r.file>>)

\* C18 (as claimed): when prepare() has returned, the output directory exists.
C18_OutputDirExistsAfterPrepare ==
  (\/ engine.op = "prepare" /\ engine.pc = "returned"
   \/ engine.op = "build" /\ engine.pc = "gather") => outputDir = "present"

\* C19 (as claimed): a build that has ended has called stop() and the worker
\* pool is released.
C19_BuildAlwaysStops ==
  BuildEnded => (HasEntry(engine.log, <<"stop", "called">>) /\ worker = "released")

\* the asset file of a relative URL, and its path as seen from the output root
AssetFilePath == PathJoin(OutputDirPath \o asset.dir, asset.url)
AssetRelPath == PathRelative(OutputDirPath, AssetFilePath)

\* the asset file does not lie in the output root
OutsideRoot == CommonPrefix(OutputDirPath, AssetFilePath) < Len(OutputDirPath)

\* the number of leading "../" of a relative path: ".." segments with a
\* segment after them
LeadingUps(rel) ==
  Cardinality({n \in 1..Len(rel) : n < Len(rel) /\ \A i \in 1..n : rel[i] = ".."})

\* C12: a URL that does not start with "./" or "../" is returned unchanged; a
\* relative URL of an asset outside the output root becomes
\* /__wds-outside-root__/<count>/<rest>, with <count> the number of leading
\* "../" of the asset's path relative to the output root and <rest> that path
\* without them; <count> steps up from the output root followed by <rest> lead
\* to the asset file.
C12_AssetUrlRewritten ==
  asset.result # <<>> =>
    /\ ~IsRelativeUrl(asset.url) => asset.result = asset.url
    /\ (IsRelativeUrl(asset.url) /\ OutsideRoot) =>
         LET n == LeadingUps(AssetRelPath)
             rest == SubSeq(AssetRelPath, n + 1, Len(AssetRelPath))
         IN /\ asset.result = <<"", "__wds-outside-root__", Decimal(n)>> \o rest
            /\ n >= 1 \/ rest = <<"..">>
            /\ (Len(rest) >= 2 => rest[1] # "..")
            /\ PathJoin(OutputDirPath, [i \in 1..n |-> ".."] \o rest) = AssetFilePath

\* ../../../img from an output file in docs/ was rewritten with the count 2
C12_Witness ==
  /\ asset.url = <<"..", "..", "..", "img">> /\ asset.dir = <<"docs">>
  /\ asset.result = <<"", "__wds-outside-root__", "2", "img">>

\* C13 (as claimed): a channel whose register-tab message was handled and whose
\* pathname resolves to a source file is subscribed to that page for as long
\* as it is open.
C13_RegisterTabSubscribes ==
  \A c \in Channels :
    (chan[c].reg = "done" /\ chan[c].state = "open" /\ chan[c].path \in source) =>
       c \in subs[chan[c].path]

\* handler h has a render in flight
Rendering(h) == handlers[h].pc \in {"render1", "render2", "sweepRender"}

\* the step in which the sweep of handler h begins: the second render of the
\* triggering file settles in it and has written its output
SweepBeginsAfterSecondRender(h) ==
  (handlers[h].pos = 0 /\ handlers'[h].pos > 0) =>
     /\ handlers[h].pc = "render2"
     /\ outputs'[handlers[h].file] # None
     /\ handlers[h].log[Len(handlers[h].log)] = <<"render", handlers[h].file>>

\* the step in which the sweep of handler h starts the render of a page: the
\* render h had in flight settles in the same step, so that the new render is
\* the only one of h
SweepStartsOneRender(h) ==
  LET r == handlers[h] IN
  (Len(handlers'[h].log) > Len(r.log) /\ handlers'[h].pc = "sweepRender") =>
     /\ r.pc \in {"render2", "sweepRender", "sweepDelete"}
     /\ handlers'[h].log[Len(handlers'[h].log)] = <<"render", PageOrder[handlers'[h].pos]>>
     /\ Count(handlers'[h].log, <<"render", PageOrder[handlers'[h].pos]>>) = 1
     /\ handlers'[h].pos > r.pos
     /\ r.pc = "render2" => outputs'[r.file] # None
     /\ r.pc = "sweepRender" => outputs'[PageOrder[r.pos]] # None

\* C14: the renders of one sweep run one after another, each started in the
\* step in which the one before it has settled, and the sweep begins only when
\* the second render of the triggering file has completed.
C14_SweepSequential ==
  /\ [][\A h \in Handlers : SweepBeginsAfterSecondRender(h) /\ SweepStartsOneRender(h)]_vars
  /\ [](\A h \in Handlers :
          handlers[h].pc \in {"sweepRender", "sweepDelete"} =>
             /\ handlers[h].pos > 0
             /\ Count(handlers[h].log, <<"render", handlers[h].file>>) = 2)

\* the sweep of the watcher's run renders c after its render of b has settled
C14_Witness ==
  LET r == handlers[WatchId] IN
  /\ r.pc = "sweepRender" /\ PageOrder[r.pos] = "c"
  /\ HasEntry(r.log, <<"render", "b">>) /\ outputs["b"] # None

====
